---------------------------- MODULE Spec2Model ----------------------------
(***************************************************************************)
(* The capture pipeline of CaptureInterface (src/src/pcap-ffxiv.ts): the   *)
(* per-flow queue buffers, the frame reassembler (the drain loop of the    *)
(* internal "packet" handler), the frame processor (_processFrame), the    *)
(* opcode index (setRegion / updateOpcodesCache) and the asset loading     *)
(* chain started by the constructor.                                       *)
(*                                                                         *)
(* The wire is modelled in cells: one cell stands for one fixed-width      *)
(* field of a header or one unit of a body, so a header of                 *)
(* FRAME_HEADER_SIZE cells is <<magic, size, segmentCount, isCompressed>>. *)
(* Every offset computation of the code (slice, pop, copy) is carried out  *)
(* on cells exactly as the code carries it out on bytes.                   *)
(***************************************************************************)
EXTENDS Integers, Sequences, FiniteSets, TLC

\* ------------------------------------------------------------------------
\* Model bounds
\* ------------------------------------------------------------------------

\* The most cells the environment lets one flow's queue buffer hold.
MaxBuffered == 16

\* The most PSH payloads the capture delivers to two flows together.
MaxFlowPayloads == 4

\* The most calls of open() on one interface.
MaxOpens == 2

\* ------------------------------------------------------------------------
\* Values
\* ------------------------------------------------------------------------

\* JavaScript's undefined, and a defined value v.
Undefined == [tag |-> "undefined"]

Some(v) == [tag |-> "some", v |-> v]

IsDefined(x) == x.tag = "some"

Min(a, b) == IF a < b THEN a ELSE b

\* Buffer.slice(start): the cells from index start (0-based) to the end;
\* a start past the end gives the empty buffer.
Slice(b, start) == SubSeq(b, Min(start, Len(b)) + 1, Len(b))

\* Buffer.slice(0, n): the first n cells (all of them when fewer).
Take(b, n) == SubSeq(b, 1, Min(n, Len(b)))

\* A zero-filled buffer of n cells (Buffer.alloc(n)).
Zeros(n) == [i \in 1..n |-> 0]

\* ------------------------------------------------------------------------
\* Constants of the wire format (./constants, ./models)
\* ------------------------------------------------------------------------

FRAME_HEADER_SIZE == 4

SEG_HEADER_SIZE == 2

IPC_HEADER_SIZE == 2

\* SegmentType.Ipc; SegmentTypeKeepAlive is one of the non-IPC types.
SegmentTypeIpc == 3

SegmentTypeKeepAlive == 7

\* The two accepted values of the frame magic, and one that is not accepted.
MagicStandard == 82

MagicKeepAlive == 0

MagicOther == 99

\* The first cell of a zlib stream.
ZlibHeader == 120

Regions == {"Global", "Chinese", "Korean"}

\* ------------------------------------------------------------------------
\* Names: a string is kept as its first character and the rest, the two
\* parts the code takes it apart into (typeName[0], typeName.slice(1)).
\* ------------------------------------------------------------------------

Str(first, rest) == [first |-> first, rest |-> rest]

NameNpcSpawn == Str("N", "pcSpawn")

NameInventoryModifyHandler == Str("I", "nventoryModifyHandler")

NameLogout == Str("L", "ogout")

NameChatHandler == Str("C", "hatHandler")

NameUnknown == Str("u", "nknown")

\* String.prototype.toLowerCase on one character.
ToLowerCase(c) ==
    CASE c = "N" -> "n"
      [] c = "I" -> "i"
      [] c = "L" -> "l"
      [] c = "C" -> "c"
      [] OTHER -> c

\* typeName[0].toLowerCase() + typeName.slice(1)
LowerFirst(typeName) == Str(ToLowerCase(typeName.first), typeName.rest)

\* ------------------------------------------------------------------------
\* The downloaded tables (the environment's answers to downloadJson)
\* ------------------------------------------------------------------------

Entry(name, opcode) == [name |-> name, opcode |-> opcode]

OpcodeList(region, server, client) ==
    [region |-> region,
     lists |-> [ServerZoneIpcType |-> server, ClientZoneIpcType |-> client]]

GlobalOpcodes ==
    OpcodeList("Global",
               <<Entry(NameNpcSpawn, 1), Entry(NameLogout, 5)>>,
               <<Entry(NameInventoryModifyHandler, 2), Entry(NameChatHandler, 5)>>)

ChineseOpcodes ==
    OpcodeList("Chinese",
               <<Entry(NameInventoryModifyHandler, 1), Entry(NameNpcSpawn, 2)>>,
               <<>>)

KoreanOpcodes ==
    OpcodeList("Korean",
               <<Entry(NameNpcSpawn, 1)>>,
               <<Entry(NameInventoryModifyHandler, 2)>>)

\* opcodes.min.json as the remote may serve it: with every region, or
\* without an entry for the Korean region.
OpcodeJsons ==
    { <<GlobalOpcodes, ChineseOpcodes, KoreanOpcodes>>,
      <<GlobalOpcodes, ChineseOpcodes>> }

\* constants.min.json: a record per region it knows; it has none for Korean.
ConstantsJson ==
    [r \in Regions |->
        CASE r = "Global"  -> Some([InventoryOperationBaseValue |-> 10])
          [] r = "Chinese" -> Some([InventoryOperationBaseValue |-> 20])
          [] OTHER         -> Undefined]

\* ------------------------------------------------------------------------
\* QueueBuffer: the per-flow byte queue
\* ------------------------------------------------------------------------

\* QueueBuffer.push(bytes)
Push(q, bytes) == q \o bytes

\* QueueBuffer.size()
Size(q) == Len(q)

\* QueueBuffer.peek(n): the next n cells, not consumed; none when fewer.
Peek(q, n) == IF Len(q) < n THEN Undefined ELSE Some(SubSeq(q, 1, n))

\* QueueBuffer.pop(n): the next n cells, and the queue without them.
Pop(q, n) == [bytes |-> Take(q, n), queue |-> Slice(q, n)]

\* ------------------------------------------------------------------------
\* Header parsers and the magic test (./frame-processing)
\* ------------------------------------------------------------------------

\* A read of cell i (0-based) of b; a read past the end gives 0.
ReadCell(b, i) == IF i < Len(b) THEN b[i + 1] ELSE 0

parseFrameHeader(b) ==
    [magic        |-> ReadCell(b, 0),
     size         |-> ReadCell(b, 1),
     segmentCount |-> ReadCell(b, 2),
     isCompressed |-> ReadCell(b, 3) # 0]

parseSegmentHeader(b) ==
    [size |-> ReadCell(b, 0), segmentType |-> ReadCell(b, 1)]

parseIpcHeader(b) ==
    [reserved |-> ReadCell(b, 0), type |-> ReadCell(b, 1)]

\* tryGetFrameHeader(buf): the header at the head of the queue, not consumed;
\* null while fewer than FRAME_HEADER_SIZE cells are buffered.
tryGetFrameHeader(q) ==
    LET head == Peek(q, FRAME_HEADER_SIZE)
    IN  IF IsDefined(head) THEN Some(parseFrameHeader(head.v)) ELSE Undefined

isMagical(frameHeader) ==
    frameHeader.magic = MagicStandard \/ frameHeader.magic = MagicKeepAlive

\* roundToNextPowerOf2(n) (./memory): the least power of two >= n; 0 for n <= 0.
RECURSIVE PowerOf2From(_, _)
PowerOf2From(p, n) == IF p >= n THEN p ELSE PowerOf2From(2 * p, n)

roundToNextPowerOf2(n) == IF n <= 0 THEN 0 ELSE PowerOf2From(1, n)

\* ------------------------------------------------------------------------
\* zlib (pako.inflate): a stream is a header cell, the data, a check cell
\* ------------------------------------------------------------------------

RECURSIVE SumCells(_)
SumCells(b) == IF b = <<>> THEN 0 ELSE Head(b) + SumCells(Tail(b))

Checksum(b) == (1 + SumCells(b)) % 251

Deflate(b) == <<ZlibHeader>> \o b \o <<Checksum(b)>>

\* The outcome of pako.inflate(b): the data, or the message it throws.
Inflate(b) ==
    IF Len(b) = 0 \/ b[1] # ZlibHeader
    THEN [ok |-> FALSE, err |-> "incorrect header check", data |-> <<>>]
    ELSE IF Len(b) < 2 \/ b[Len(b)] # Checksum(SubSeq(b, 2, Len(b) - 1))
    THEN [ok |-> FALSE, err |-> "incorrect data check", data |-> <<>>]
    ELSE [ok |-> TRUE, err |-> "", data |-> SubSeq(b, 2, Len(b) - 1)]

\* ------------------------------------------------------------------------
\* The opcode index (setRegion, updateOpcodesCache)
\* ------------------------------------------------------------------------

\* A reduce that keeps the first entry of an opcode.
RECURSIVE ReduceEntries_FirstWins(_, _)
ReduceEntries_FirstWins(acc, entries) ==
    IF entries = <<>>
    THEN acc
    ELSE LET entry == Head(entries)
         IN  ReduceEntries_FirstWins(
                 [o \in (DOMAIN acc) \cup {entry.opcode} |->
                     IF o \in DOMAIN acc THEN acc[o] ELSE entry.name],
                 Tail(entries))

\* The reduce of updateOpcodesCache: {...acc, [entry.opcode]: entry.name}.
RECURSIVE ReduceEntries(_, _)
ReduceEntries(acc, entries) ==
    IF entries = <<>>
    THEN acc
    ELSE LET entry == Head(entries)
         IN  ReduceEntries([o \in (DOMAIN acc) \cup {entry.opcode} |->
                               IF o = entry.opcode THEN entry.name ELSE acc[o]],
                           Tail(entries))

\* this._opcodeLists?.find((ol) => ol.region === this._region)
FindRegion(opcodeLists, region) ==
    IF ~IsDefined(opcodeLists)
    THEN Undefined
    ELSE LET found == {i \in DOMAIN opcodeLists.v : opcodeLists.v[i].region = region}
         IN  IF found = {}
             THEN Undefined
             ELSE Some(opcodeLists.v[CHOOSE i \in found : \A j \in found : i <= j])

\* The value updateOpcodesCache assigns to this._opcodes.
updateOpcodesCache(opcodeLists, region) ==
    LET regionOpcodes == FindRegion(opcodeLists, region)
    IN  IF IsDefined(regionOpcodes)
        THEN Some(ReduceEntries(<<>>,
                      regionOpcodes.v.lists.ServerZoneIpcType
                          \o regionOpcodes.v.lists.ClientZoneIpcType))
        ELSE Undefined

\* ------------------------------------------------------------------------
\* The decoder registry (loadPacketProcessors) and its decoders
\* ------------------------------------------------------------------------

KeyNpcSpawn == Str("n", "pcSpawn")

KeyInventoryModifyHandler == Str("i", "nventoryModifyHandler")

\* The keys of this._packetDefs that the modelled tables can name.
loadPacketProcessors == {KeyNpcSpawn, KeyInventoryModifyHandler}

\* BufferReader over ipcData: the cell at the cursor, 0 past the end.
NextUInt(ipcData, cursor) == ReadCell(ipcData, cursor)

\* npcSpawn(reader): sequential reads, the constants are not used.
npcSpawn(ipcData) ==
    [gimmickId |-> NextUInt(ipcData, 0), u2b |-> NextUInt(ipcData, 1)]

\* inventoryModifyHandler(reader, constants): reads a field of the constants
\* record, which faults when the record is undefined.
inventoryModifyHandler(ipcData, constants) ==
    [sequence |-> NextUInt(ipcData, 0),
     action   |-> NextUInt(ipcData, 1) - constants.v.InventoryOperationBaseValue]

DecoderThrows(typeName, ipcData, constants) ==
    typeName = KeyInventoryModifyHandler /\ ~IsDefined(constants)

\* this._packetDefs[typeName](reader, constants), when it returns.
Decode(typeName, ipcData, constants) ==
    IF typeName = KeyNpcSpawn
    THEN npcSpawn(ipcData)
    ELSE inventoryModifyHandler(ipcData, constants)

\* ------------------------------------------------------------------------
\* The frame processor (_processFrame)
\*
\* st is the state one capture callback works on:
\*   queue        the flow's QueueBuffer
\*   _region, _opcodes, _opcodeLists, _constants   the fields of the interface
\*   onSegment    the subscriber's "segment" listener: "none", or the region
\*                it passes to setRegion each time it is called
\*   shortRead    what a header parser does on a slice shorter than its
\*                layout: "throws" or "zero"
\*   events       the events emitted so far
\*   thrown       the exception that escaped, "none" when none did
\*   hung         the drain loop does not terminate
\*   regionSet    setRegion was called during the callback
\*   source       the source address of the captured packet
\* ------------------------------------------------------------------------

Emit(st, event) == [st EXCEPT !.events = Append(@, event)]

Throw(st, what) == [st EXCEPT !.thrown = what]

\* setRegion(region)
setRegion(st, region) ==
    [st EXCEPT !._region = region,
               !._opcodes = updateOpcodesCache(st._opcodeLists, region),
               !.regionSet = TRUE]

\* The listeners of "segment" run inside emit.
EmitSegment(st, segment) ==
    LET emitted == Emit(st, [kind |-> "segment", segment |-> segment])
    IN  IF st.onSegment = "none" THEN emitted ELSE setRegion(emitted, st.onSegment)

\* target.fill(0) then source.copy(target, 0, sourceStart): copies
\* min(target.length, source.length - sourceStart) cells.
CopyInto(target, source, sourceStart) ==
    [i \in 1..Len(target) |->
        IF sourceStart + i <= Len(source) THEN source[sourceStart + i] ELSE target[i]]

\* segmentHeader.segmentType === SegmentType.Ipc
IsIpc(segmentHeader) == segmentHeader.segmentType = SegmentTypeIpc

\* The ipcData of an IPC segment (lines 205-206).
IpcData(segmentHeader, ipcPayload) ==
    CopyInto(Zeros(roundToNextPowerOf2(segmentHeader.size - SEG_HEADER_SIZE - IPC_HEADER_SIZE)),
             ipcPayload, IPC_HEADER_SIZE)

\* this._opcodes[ipcHeader.type] || "unknown", on a defined index.
LookupName(opcodes, type) ==
    IF type \in DOMAIN opcodes THEN opcodes[type] ELSE NameUnknown

\* this._packetDefs[typeName] && this._constants
ShouldDecode(st, typeName) ==
    typeName \in loadPacketProcessors /\ IsDefined(st._constants)

\* if (ipcHeader != null): the segment gets a message event.
HasMessage(segment) == IsDefined(segment.ipcHeader)

\* Lines 217-228 on [st, segment]: name the message, decode it into
\* segment.parsedIpcData, emit "message".
ProcessIpc(st, segment) ==
    IF ~IsDefined(st._opcodes)
    THEN [st |-> Throw(st, "opcodeLookup"), segment |-> segment]
    ELSE LET typeName  == LowerFirst(LookupName(st._opcodes.v, segment.ipcHeader.v.type))
             constants == st._constants.v[st._region]
             parsed    == [segment EXCEPT !.parsedIpcData =
                              Some(Decode(typeName, segment.ipcData.v, constants))]
             message(seg) == [kind |-> "message", name |-> typeName, segment |-> seg]
         IN  IF ~ShouldDecode(st, typeName)
             THEN [st |-> Emit(st, message(segment)), segment |-> segment]
             ELSE IF DecoderThrows(typeName, segment.ipcData.v, constants)
             THEN [st |-> Throw(st, "decoder"), segment |-> segment]
             ELSE [st |-> Emit(st, message(parsed)), segment |-> parsed]

\* One iteration of the segment loop (lines 197-232) on the frame context
\* f = [st, segments, offset].
ProcessSegment(f, remainder) ==
    LET segmentPayload == Slice(remainder, f.offset)
        segmentHeader  == parseSegmentHeader(segmentPayload)
        ipcPayload     == Slice(remainder, f.offset + SEG_HEADER_SIZE)
        segment        ==
            IF IsIpc(segmentHeader)
            THEN [header        |-> segmentHeader,
                  ipcHeader     |-> Some(parseIpcHeader(ipcPayload)),
                  ipcData       |-> Some(IpcData(segmentHeader, ipcPayload)),
                  parsedIpcData |-> Undefined]
            ELSE [header        |-> segmentHeader,
                  ipcHeader     |-> Undefined,
                  ipcData       |-> Undefined,
                  parsedIpcData |-> Undefined]
        ipc            ==
            IF HasMessage(segment)
            THEN ProcessIpc(f.st, segment)
            ELSE [st |-> f.st, segment |-> segment]
    IN  IF f.st.shortRead = "throws" /\ Len(segmentPayload) < SEG_HEADER_SIZE
        THEN [f EXCEPT !.st = Throw(f.st, "parseSegmentHeader")]
        ELSE IF f.st.shortRead = "throws" /\ IsIpc(segmentHeader)
                    /\ Len(ipcPayload) < IPC_HEADER_SIZE
        THEN [f EXCEPT !.st = Throw(f.st, "parseIpcHeader")]
        ELSE IF ipc.st.thrown # "none"
        THEN [f EXCEPT !.st = ipc.st, !.segments = Append(@, segment)]
        ELSE [st       |-> EmitSegment(ipc.st, ipc.segment),
              segments |-> Append(f.segments, ipc.segment),
              offset   |-> f.offset + segmentHeader.size]

\* for (let i = 0; i < frameHeader.segmentCount; i++): left by an exception.
RECURSIVE SegmentLoop(_, _, _, _)
SegmentLoop(i, segmentCount, remainder, f) ==
    IF i >= segmentCount \/ f.st.thrown # "none"
    THEN f
    ELSE SegmentLoop(i + 1, segmentCount, remainder, ProcessSegment(f, remainder))

\* A catch block that never returns: no frame is dropped.
DropsFrame_Never(err) == FALSE

\* The catch block returns (the frame is dropped) on this error only.
DropsFrame(err) == err = "incorrect header check"

\* The body the segments are read from (lines 182-193): the inflated body,
\* or the body as it came when it is not compressed or inflate threw.
Remainder(frameHeader, body) ==
    IF frameHeader.isCompressed /\ Inflate(body).ok THEN Inflate(body).data ELSE body

\* Lines 235-240: "packet", then "diagnostics".
EmitPacket(st, frameHeader, segments, port) ==
    Emit(Emit(st, [kind |-> "packet",
                   packet |-> [source |-> st.source,
                               destination |-> port,
                               childFrame |-> [header |-> frameHeader,
                                               segments |-> segments]]]),
         [kind |-> "diagnostics"])

\* _processFrame(frameHeader, buf, ..., dstPort)
ProcessFrame(st, frameHeader, buf, port) ==
    LET body == Slice(buf, FRAME_HEADER_SIZE)
    IN  IF frameHeader.isCompressed /\ ~Inflate(body).ok /\ DropsFrame(Inflate(body).err)
        THEN st
        ELSE LET f == SegmentLoop(0, frameHeader.segmentCount, Remainder(frameHeader, body),
                                  [st |-> st, segments |-> <<>>, offset |-> 0])
             IN  IF f.st.thrown # "none"
                 THEN f.st
                 ELSE EmitPacket(f.st, frameHeader, f.segments, port)

\* The kinds of the events evs, and those of them of one kind.
KindsOf(evs) == [i \in 1..Len(evs) |-> evs[i].kind]

EventsOfKind(evs, kind) == SelectSeq(evs, LAMBDA e : e.kind = kind)

\* ------------------------------------------------------------------------
\* The frame reassembler (the internal "packet" handler)
\* ------------------------------------------------------------------------

\* The condition of the drain loop without its test of the buffered size.
CanDrain_NoSizeTest(queue) ==
    LET frameHeader == tryGetFrameHeader(queue)
    IN  /\ IsDefined(frameHeader)
        /\ isMagical(frameHeader.v)

\* The condition of the drain loop without its test of the magic.
CanDrain_NoMagicTest(queue) ==
    LET frameHeader == tryGetFrameHeader(queue)
    IN  /\ IsDefined(frameHeader)
        /\ Size(queue) >= frameHeader.v.size

\* The condition of the drain loop (line 143).
CanDrain(queue) ==
    LET frameHeader == tryGetFrameHeader(queue)
    IN  /\ IsDefined(frameHeader)
        /\ isMagical(frameHeader.v)
        /\ Size(queue) >= frameHeader.v.size

\* An if in the place of the while: at most one frame is drained.
Drain_Once(st, port) ==
    IF st.thrown # "none" \/ ~CanDrain(st.queue)
    THEN st
    ELSE LET frameHeader == tryGetFrameHeader(st.queue).v
             popped      == Pop(st.queue, frameHeader.size)
         IN  ProcessFrame([st EXCEPT !.queue = popped.queue],
                          frameHeader, popped.bytes, port)

\* The while loop of lines 142-152. A frame of size 0 is popped as no cells:
\* the next iteration finds the same header, and the loop does not end unless
\* processing throws.
RECURSIVE Drain(_, _)
Drain(st, port) ==
    IF st.thrown # "none" \/ ~CanDrain(st.queue)
    THEN st
    ELSE LET frameHeader == tryGetFrameHeader(st.queue).v
             popped      == Pop(st.queue, frameHeader.size)
             after       == ProcessFrame([st EXCEPT !.queue = popped.queue],
                                         frameHeader, popped.bytes, port)
         IN  IF frameHeader.size = 0
             THEN [after EXCEPT !.hung = (after.thrown = "none")]
             ELSE Drain(after, port)

\* The handler of the capture's "packet" event on a PSH payload for dstport.
OnPacket(st, port, payload) ==
    Drain([st EXCEPT !.queue = Push(@, payload)], port)

\* The capture's "packet" event with k handlers registered: they run one
\* after the other on the same payload; an exception leaves the emit.
RECURSIVE Deliver(_, _, _, _)
Deliver(st, port, payload, k) ==
    IF k = 0 \/ st.thrown # "none" \/ st.hung
    THEN st
    ELSE Deliver(OnPacket(st, port, payload), port, payload, k - 1)

\* ------------------------------------------------------------------------
\* The traffic the environment offers
\* ------------------------------------------------------------------------

\* The flows (destination ports) of the capture.
Ports == {54992}

\* The source address of the peer.
PeerAddress == "peer"

\* Two flows of the capture filter, and a second source address.
FlowPorts == {54992, 55006}

OtherAddress == "other"

Sources == {PeerAddress, OtherAddress}

Frame(magic, segmentCount, isCompressed, body) ==
    <<magic, FRAME_HEADER_SIZE + Len(body), segmentCount, isCompressed>> \o body

IpcSegment(opcode, data) ==
    <<SEG_HEADER_SIZE + IPC_HEADER_SIZE + Len(data), SegmentTypeIpc, 0, opcode>> \o data

OtherSegment(data) ==
    <<SEG_HEADER_SIZE + Len(data), SegmentTypeKeepAlive>> \o data

KeepAliveFrame == Frame(MagicKeepAlive, 0, 0, <<>>)

\* An IPC segment whose body of 3 cells is not a power of two, then a
\* non-IPC segment.
MixedFrame == Frame(MagicStandard, 2, 0, IpcSegment(1, <<7, 8, 9>>) \o OtherSegment(<<>>))

\* Two IPC segments.
TwoIpcFrame == Frame(MagicStandard, 2, 0, IpcSegment(2, <<6, 5>>) \o IpcSegment(1, <<>>))

\* An IPC segment with an opcode no table names.
UnknownOpcodeFrame == Frame(MagicStandard, 1, 0, IpcSegment(9, <<4>>))

CompressedFrame == Frame(MagicStandard, 1, 1, Deflate(IpcSegment(1, <<7>>)))

\* isCompressed set, body not a zlib stream (the encrypted handshake).
EncryptedFrame == Frame(MagicStandard, 1, 1, <<33, 44>>)

\* isCompressed set, a zlib stream whose check cell is wrong.
CorruptFrame == Frame(MagicStandard, 1, 1, <<ZlibHeader, SegmentTypeKeepAlive, 1>>)

\* A header whose magic is not accepted.
OtherMagicFrame == Frame(MagicOther, 0, 0, <<>>)

\* segmentCount 2, a body that holds one segment.
ShortCountFrame == Frame(MagicStandard, 2, 0, OtherSegment(<<>>))

\* segmentCount 1, a body with two more cells after its segment.
LeftoverFrame == Frame(MagicStandard, 1, 0, OtherSegment(<<>>) \o <<5, 5>>)

\* A header with an accepted magic and the size field 0.
ZeroSizeFrame == <<MagicStandard, 0, 0, 0>>

Frames ==
    {KeepAliveFrame, MixedFrame, TwoIpcFrame, UnknownOpcodeFrame, CompressedFrame,
     EncryptedFrame, CorruptFrame, OtherMagicFrame, ShortCountFrame, LeftoverFrame,
     ZeroSizeFrame}

\* What the peer writes to a flow at once: one frame, or two back to back.
Payloads ==
    Frames \cup {KeepAliveFrame \o UnknownOpcodeFrame,
                 EncryptedFrame \o UnknownOpcodeFrame,
                 UnknownOpcodeFrame \o KeepAliveFrame}

\* ------------------------------------------------------------------------
\* The state machine
\* ------------------------------------------------------------------------

VARIABLES
    _bufTable,     \* destination port -> QueueBuffer, of the ports seen
    _opcodeLists,  \* the opcode lists, undefined until loaded
    _constants,    \* the constants table, undefined until loaded
    _region,       \* the region of the interface
    _opcodes,      \* the opcode index
    loadPc,        \* the constructor's loading chain: "opcodes", "constants", "ready"
    onSegment,     \* the subscriber's "segment" listener
    shortRead,     \* what a header parser does on a short slice
    wire,          \* the payload the peer has written to the flow
    wirePos,       \* how many cells of it the capture has delivered
    events,        \* the events emitted since the peer wrote it
    thrown,        \* the exception that escaped the last capture callback
    hung,          \* a capture callback that does not return
    pieces,        \* in how many PSH payloads it was delivered so far (3: 3 or more)
    aligned,       \* the flow's buffer was empty when the peer wrote it
    regionSet,     \* setRegion has been called
    capOpen,       \* the capture device is open
    handlers,      \* how many internal "packet" handlers are registered on it
    readyEmits,    \* how many times "ready" was emitted
    readySubs,     \* the listeners subscribed to "ready"
    readyCalls,    \* listener -> how many times it was called
    flowFrames,    \* destination port -> the packets emitted for it so far
    alone          \* destination port -> the same flow fed to a buffer of its own

\* The capture device and its handlers.
capVars == <<capOpen, handlers>>

\* The "ready" event and its listeners.
readyVars == <<readyEmits, readySubs, readyCalls>>

\* The record of what each flow was fed and gave.
flowVars == <<flowFrames, alone>>

vars ==
    <<_bufTable, _opcodeLists, _constants, _region, _opcodes, loadPc, onSegment,
      shortRead, wire, wirePos, events, thrown, hung, pieces, aligned, regionSet,
      capVars, readyVars, flowVars>>

\* A table with one buffer for all the ports: the first one created.
QueueOf_AnyPort(port) ==
    IF DOMAIN _bufTable = {}
    THEN <<>>
    ELSE _bufTable[CHOOSE p \in DOMAIN _bufTable : \A q \in DOMAIN _bufTable : p <= q]

\* this._bufTable[port], before _getBuffer has created it: an empty queue.
QueueOf(port) == IF port \in DOMAIN _bufTable THEN _bufTable[port] ELSE <<>>

\* The state a capture callback for the flow starts on.
StateOf(port) ==
    [queue        |-> QueueOf(port),
     _region      |-> _region,
     _opcodes     |-> _opcodes,
     _opcodeLists |-> _opcodeLists,
     _constants   |-> _constants,
     onSegment    |-> onSegment,
     shortRead    |-> shortRead,
     events       |-> events,
     thrown       |-> "none",
     hung         |-> FALSE,
     regionSet    |-> FALSE,
     source       |-> PeerAddress]

\* The listeners a subscriber may register for "ready".
ReadyListeners == {1, 2}

\* new CaptureInterface(region): region "Global" by default.
Init ==
    /\ _bufTable = <<>>
    /\ _opcodeLists = Undefined
    /\ _constants = Undefined
    /\ _region \in Regions
    /\ _opcodes = Some(<<>>)
    /\ loadPc = "opcodes"
    /\ onSegment = "none"
    /\ shortRead \in {"throws", "zero"}
    /\ wire = <<>>
    /\ wirePos = 0
    /\ events = <<>>
    /\ thrown = "none"
    /\ hung = FALSE
    /\ pieces = 0
    /\ aligned = TRUE
    /\ regionSet = FALSE
    /\ capOpen = FALSE
    /\ handlers = 0
    /\ readyEmits = 0
    /\ readySubs = {}
    /\ readyCalls = [l \in ReadyListeners |-> 0]
    /\ flowFrames = [p \in FlowPorts |-> <<>>]
    /\ alone = [p \in FlowPorts |-> [queue |-> <<>>, frames |-> <<>>, n |-> 0]]

\* _loadOpcodes resolves: the lists are stored, the index rebuilt.
LoadOpcodes(json) ==
    /\ ~hung
    /\ loadPc = "opcodes"
    /\ _opcodeLists' = Some(json)
    /\ _opcodes' = updateOpcodesCache(Some(json), _region)
    /\ loadPc' = "constants"
    /\ UNCHANGED <<_bufTable, _constants, _region, onSegment, shortRead, wire, wirePos,
                   events, thrown, hung, pieces, aligned, regionSet, capVars, readyVars,
                   flowVars>>

\* _loadConstants resolves, "ready" is emitted: its listeners are called.
LoadConstants ==
    /\ ~hung
    /\ loadPc = "constants"
    /\ _constants' = Some(ConstantsJson)
    /\ loadPc' = "ready"
    /\ readyEmits' = readyEmits + 1
    /\ readyCalls' = [l \in ReadyListeners |->
                         IF l \in readySubs THEN readyCalls[l] + 1 ELSE readyCalls[l]]
    /\ UNCHANGED <<_bufTable, _opcodeLists, _region, _opcodes, onSegment, shortRead, wire,
                   wirePos, events, thrown, hung, pieces, aligned, regionSet, capVars,
                   readySubs, flowVars>>

\* downloadJson rejects (the opcode lists, or the constants table): the
\* chain of the constructor stops there.
LoadFails ==
    /\ ~hung
    /\ loadPc \in {"opcodes", "constants"}
    /\ loadPc' = "failed"
    /\ UNCHANGED <<_bufTable, _opcodeLists, _constants, _region, _opcodes, onSegment,
                   shortRead, wire, wirePos, events, thrown, hung, pieces, aligned,
                   regionSet, capVars, readyVars,
                   flowVars>>

\* on("ready", listener): the listener is added to the listeners of "ready".
OnReady(listener) ==
    /\ ~hung
    /\ listener \notin readySubs
    /\ readySubs' = readySubs \cup {listener}
    /\ UNCHANGED <<_bufTable, _opcodeLists, _constants, _region, _opcodes, loadPc,
                   onSegment, shortRead, wire, wirePos, events, thrown, hung, pieces,
                   aligned, regionSet, capVars, readyEmits, readyCalls,
                   flowVars>>

\* open(deviceIdentifier): the device is opened and one more internal
\* handler is registered.
Open ==
    /\ ~hung
    /\ capOpen' = TRUE
    /\ handlers' = handlers + 1
    /\ UNCHANGED <<_bufTable, _opcodeLists, _constants, _region, _opcodes, loadPc,
                   onSegment, shortRead, wire, wirePos, events, thrown, hung, pieces,
                   aligned, regionSet, readyVars,
                   flowVars>>

\* close(): the device is closed; the handlers stay registered.
Close ==
    /\ ~hung
    /\ capOpen
    /\ capOpen' = FALSE
    /\ UNCHANGED <<_bufTable, _opcodeLists, _constants, _region, _opcodes, loadPc,
                   onSegment, shortRead, wire, wirePos, events, thrown, hung, pieces,
                   aligned, regionSet, handlers, readyVars,
                   flowVars>>

\* setRegion(region), called by the user between capture callbacks.
SetRegion(region) ==
    /\ ~hung
    /\ _region' = region
    /\ _opcodes' = updateOpcodesCache(_opcodeLists, region)
    /\ regionSet' = TRUE
    /\ UNCHANGED <<_bufTable, _opcodeLists, _constants, loadPc, onSegment, shortRead, wire,
                   wirePos, events, thrown, hung, pieces, aligned, capVars, readyVars,
                   flowVars>>

\* on("segment", listener): the listener calls setRegion(region), or there
\* is none.
Subscribe(listener) ==
    /\ ~hung
    /\ onSegment # listener
    /\ onSegment' = listener
    /\ UNCHANGED <<_bufTable, _opcodeLists, _constants, _region, _opcodes, loadPc,
                   shortRead, wire, wirePos, events, thrown, hung, pieces, aligned, regionSet,
                   capVars, readyVars,
                   flowVars>>

\* The peer writes a payload to the flow once the previous one is delivered.
Send(payload) ==
    /\ ~hung
    /\ wirePos = Len(wire)
    /\ \A port \in Ports : Len(QueueOf(port)) + Len(payload) <= MaxBuffered
    /\ wire' = payload
    /\ wirePos' = 0
    /\ events' = <<>>
    /\ thrown' = "none"
    /\ pieces' = 0
    /\ aligned' = (\A port \in Ports : QueueOf(port) = <<>>)
    /\ UNCHANGED <<_bufTable, _opcodeLists, _constants, _region, _opcodes, loadPc,
                   onSegment, shortRead, hung, regionSet, capVars, readyVars,
                   flowVars>>

\* The open capture delivers the next n cells of the flow as one PSH
\* payload: every registered "packet" handler runs on it.
Capture(port, n) ==
    /\ ~hung
    /\ capOpen
    /\ handlers > 0
    /\ wirePos + n <= Len(wire)
    /\ LET after == Deliver(StateOf(port), port, SubSeq(wire, wirePos + 1, wirePos + n),
                            handlers)
       IN  /\ _bufTable' = [p \in (DOMAIN _bufTable) \cup {port} |->
                               IF p = port THEN after.queue ELSE _bufTable[p]]
           /\ _region' = after._region
           /\ _opcodes' = after._opcodes
           /\ events' = after.events
           /\ thrown' = after.thrown
           /\ hung' = after.hung
           /\ regionSet' = (regionSet \/ after.regionSet)
    /\ wirePos' = wirePos + n
    /\ pieces' = IF pieces < 3 THEN pieces + 1 ELSE pieces
    /\ UNCHANGED <<_opcodeLists, _constants, loadPc, onSegment, shortRead, wire, aligned,
                   capVars, readyVars,
                   flowVars>>

\* The packets among the events evs.
PacketsOf(evs) ==
    [i \in 1..Len(EventsOfKind(evs, "packet")) |-> EventsOfKind(evs, "packet")[i].packet]

\* How many PSH payloads the two flows were fed together.
Fed == Cardinality({pk \in FlowPorts \X (1..MaxFlowPayloads) : pk[2] <= alone[pk[1]].n})

\* The open capture delivers one PSH payload from the address source to
\* the destination port: every registered "packet" handler runs on it. The
\* same payload is also fed to the handler on a buffer that only this flow
\* is fed to (alone).
CaptureFlow(port, source, payload) ==
    /\ ~hung
    /\ capOpen
    /\ handlers > 0
    /\ Fed < MaxFlowPayloads
    /\ LET st    == [StateOf(port) EXCEPT !.events = <<>>, !.source = source]
           after == Deliver(st, port, payload, handlers)
           solo  == OnPacket([st EXCEPT !.queue = alone[port].queue], port, payload)
       IN  /\ _bufTable' = [p \in (DOMAIN _bufTable) \cup {port} |->
                               IF p = port THEN after.queue ELSE _bufTable[p]]
           /\ _region' = after._region
           /\ _opcodes' = after._opcodes
           /\ events' = after.events
           /\ thrown' = after.thrown
           /\ hung' = after.hung
           /\ regionSet' = (regionSet \/ after.regionSet)
           /\ flowFrames' = [flowFrames EXCEPT ![port] = @ \o PacketsOf(after.events)]
           /\ alone' = [alone EXCEPT ![port] =
                            [queue  |-> solo.queue,
                             frames |-> @.frames \o PacketsOf(solo.events),
                             n      |-> @.n + 1]]
    /\ UNCHANGED <<_opcodeLists, _constants, loadPc, onSegment, shortRead, wire, wirePos,
                   pieces, aligned, capVars, readyVars>>

\* The interface in normal use: it is opened once and stays open.
Next ==
    \/ (handlers = 0 /\ Open)
    \/ \E json \in OpcodeJsons : LoadOpcodes(json)
    \/ LoadConstants
    \/ \E region \in Regions : SetRegion(region)
    \/ \E listener \in Regions \cup {"none"} : Subscribe(listener)
    \/ \E payload \in Payloads : Send(payload)
    \/ \E port \in Ports, n \in 1..MaxBuffered : Capture(port, n)

Spec == Init /\ [][Next]_vars

\* ------------------------------------------------------------------------
\* Vocabulary of the properties
\* ------------------------------------------------------------------------

\* The step is a capture callback on the flow: it delivers Delivered.
IsCapture == wirePos' > wirePos

Delivered == SubSeq(wire, wirePos + 1, wirePos')

\* The step delivers the last cells of the payload.
Completes == IsCapture /\ wirePos' = Len(wire)

\* b is one whole frame with an accepted magic.
WellFormedFrame(b) ==
    /\ Len(b) >= FRAME_HEADER_SIZE
    /\ b[1] \in {MagicStandard, MagicKeepAlive}
    /\ b[2] = Len(b)

\* b is two whole frames with accepted magics, one after the other.
TwoFrames(b) ==
    /\ Len(b) >= FRAME_HEADER_SIZE
    /\ b[2] < Len(b)
    /\ WellFormedFrame(SubSeq(b, 1, b[2]))
    /\ WellFormedFrame(SubSeq(b, b[2] + 1, Len(b)))

FirstFrame(b) == SubSeq(b, 1, b[2])

SecondFrame(b) == SubSeq(b, b[2] + 1, Len(b))

\* The frame says it is compressed.
SaysCompressed(frame) == frame[4] # 0

FrameBody(frame) == SubSeq(frame, FRAME_HEADER_SIZE + 1, Len(frame))

\* Compressed, and the body does not start as a zlib stream.
IsEncrypted(frame) ==
    SaysCompressed(frame) /\ (Len(FrameBody(frame)) = 0 \/ FrameBody(frame)[1] # ZlibHeader)

\* Compressed, the body starts as a zlib stream and its check fails.
IsCorrupt(frame) ==
    /\ SaysCompressed(frame)
    /\ ~IsEncrypted(frame)
    /\ ~Inflate(FrameBody(frame)).ok

\* The body the segments of a frame lie in.
SegmentBody(frame) ==
    IF SaysCompressed(frame) THEN Inflate(FrameBody(frame)).data ELSE FrameBody(frame)

\* The segments of a body, in offset order: the size and the type of each,
\* and the opcode of an IPC segment (0 for the others).
RECURSIVE WireSegments(_, _)
WireSegments(body, count) ==
    IF count = 0 \/ Len(body) < SEG_HEADER_SIZE \/ body[1] < SEG_HEADER_SIZE \/ body[1] > Len(body)
    THEN <<>>
    ELSE <<[size |-> body[1], segmentType |-> body[2],
            opcode |-> IF body[2] = SegmentTypeIpc /\ Len(body) >= SEG_HEADER_SIZE + IPC_HEADER_SIZE
                       THEN body[SEG_HEADER_SIZE + IPC_HEADER_SIZE] ELSE 0]>>
             \o WireSegments(SubSeq(body, body[1] + 1, Len(body)), count - 1)

SegmentsOf(frame) == WireSegments(SegmentBody(frame), frame[3])

\* A frame whose body holds its segmentCount segments.
SoundFrame(frame) ==
    /\ WellFormedFrame(frame)
    /\ ~IsEncrypted(frame)
    /\ ~IsCorrupt(frame)
    /\ Len(SegmentsOf(frame)) = frame[3]

\* ------------------------------------------------------------------------
\* C1 Fragmentation invariance
\* ------------------------------------------------------------------------

\* The outcome of a capture callback that is visible outside it.
Outcome(st) ==
    [queue |-> st.queue, events |-> st.events, thrown |-> st.thrown, hung |-> st.hung,
     _region |-> st._region, _opcodes |-> st._opcodes]

\* The same of the state after a step.
OutcomeNow(port) ==
    [queue |-> QueueOf(port), events |-> events, thrown |-> thrown, hung |-> hung,
     _region |-> _region, _opcodes |-> _opcodes]

\* The callback on the whole frame in one PSH payload, on an empty buffer.
OneShot(port) ==
    OnPacket([StateOf(port) EXCEPT !.queue = <<>>, !.events = <<>>], port, wire)

\* C1: a well-formed magical frame written to a flow whose buffer is empty
\* and delivered in any number of PSH payloads, split at any points, has
\* emitted, when its last cell is delivered, exactly the events (kinds and
\* contents, in order) that delivering it in a single PSH payload emits, and
\* leaves the same buffer, region and index; the earlier fragments emitted
\* nothing.
C1_FragmentationInvariance ==
    [][\A port \in Ports :
          (Completes /\ WellFormedFrame(wire) /\ aligned)
              => OutcomeNow(port)' = Outcome(OneShot(port))]_vars

\* A compressed IPC frame was delivered in three or more fragments and its
\* four events (message, segment, packet, diagnostics) were emitted.
C1_Witness ==
    /\ wire = CompressedFrame
    /\ wirePos = Len(wire)
    /\ pieces = 3
    /\ aligned
    /\ KindsOf(events) = <<"message", "segment", "packet", "diagnostics">>
    /\ \A port \in Ports : QueueOf(port) = <<>>

\* ------------------------------------------------------------------------
\* C2 Event order per frame
\* ------------------------------------------------------------------------

RECURSIVE SegmentKinds(_)
SegmentKinds(segs) ==
    IF segs = <<>>
    THEN <<>>
    ELSE (IF Head(segs).segmentType = SegmentTypeIpc
          THEN <<"message", "segment">>
          ELSE <<"segment">>) \o SegmentKinds(Tail(segs))

\* The kinds of the events of a frame, in the order C2 gives.
FrameKinds(frame) == SegmentKinds(SegmentsOf(frame)) \o <<"packet", "diagnostics">>

HeadersOf(segs) ==
    [i \in 1..Len(segs) |-> [size |-> segs[i].size, segmentType |-> segs[i].segmentType]]

SegmentsIn(evs) ==
    [i \in 1..Len(EventsOfKind(evs, "segment")) |-> EventsOfKind(evs, "segment")[i].segment]

\* C2: the events of a processed frame are, for each segment in increasing
\* body offset, a message event (IPC segments only) immediately followed by
\* the segment event of the same segment, then exactly one packet event that
\* lists those segments, then exactly one diagnostics event; with
\* segmentCount = 0 just packet (empty list) and diagnostics.
C2_EventOrder ==
    [][(Completes /\ aligned /\ SoundFrame(wire))
          => /\ KindsOf(events') = FrameKinds(wire)
             /\ [i \in 1..Len(SegmentsIn(events')) |-> SegmentsIn(events')[i].header]
                   = HeadersOf(SegmentsOf(wire))
             /\ \A i \in 1..Len(events') :
                   /\ events'[i].kind = "message" => events'[i + 1].segment = events'[i].segment
                   /\ events'[i].kind = "packet"
                         => events'[i].packet.childFrame.segments = SegmentsIn(events')]_vars

\* ------------------------------------------------------------------------
\* C3 message if and only if IPC
\* ------------------------------------------------------------------------

\* The index in evs of the segment event of the i-th segment, 0 when the
\* i-th segment has none.
SegmentEventAt(evs, i) ==
    LET at == {j \in 1..Len(evs) : evs[j].kind = "segment"
                                     /\ Cardinality({k \in 1..j : evs[k].kind = "segment"}) = i}
    IN  IF at = {} THEN 0 ELSE CHOOSE j \in at : TRUE

\* The i-th segment got a message event: the one right before its segment event.
HasMessageEvent(evs, i) ==
    LET j == SegmentEventAt(evs, i)
    IN  j > 1 /\ evs[j - 1].kind = "message" /\ evs[j - 1].segment = evs[j].segment

\* C3: for every segment of a processed frame a message event is emitted
\* for it if and only if its type is IPC; every message event belongs to a
\* segment; a non-IPC segment's event carries no ipcHeader, ipcData or
\* parsedIpcData.
C3_MessageIffIpc ==
    [][(Completes /\ aligned /\ SoundFrame(wire))
          => LET segs == SegmentsOf(wire)
             IN  /\ \A i \in 1..Len(segs) :
                       HasMessageEvent(events', i) <=> segs[i].segmentType = SegmentTypeIpc
                 /\ Len(EventsOfKind(events', "message"))
                       = Cardinality({i \in 1..Len(segs) : HasMessageEvent(events', i)})
                 /\ \A i \in 1..Len(events') :
                       (events'[i].kind = "segment"
                            /\ events'[i].segment.header.segmentType # SegmentTypeIpc)
                          => /\ events'[i].segment.ipcHeader = Undefined
                             /\ events'[i].segment.ipcData = Undefined
                             /\ events'[i].segment.parsedIpcData = Undefined]_vars

\* ------------------------------------------------------------------------
\* C4 A throwing decoder
\* ------------------------------------------------------------------------

\* A decoder invoked for a segment of the frame throws: the segment names a
\* decoder that reads the region's constants record, and the loaded table
\* has no record for the region.
DecoderFails(frame) ==
    /\ onSegment = "none"
    /\ IsDefined(_opcodes)
    /\ IsDefined(_constants)
    /\ ~IsDefined(_constants.v[_region])
    /\ \E i \in 1..Len(SegmentsOf(frame)) :
          /\ SegmentsOf(frame)[i].segmentType = SegmentTypeIpc
          /\ LowerFirst(LookupName(_opcodes.v, SegmentsOf(frame)[i].opcode))
                = KeyInventoryModifyHandler

\* C4: when a decoder throws, the exception does not escape the capture
\* callback, an error event is emitted, and every segment of the frame still
\* gets its segment event and the frame its packet event.
C4_DecoderFailureContained ==
    [][(Completes /\ aligned /\ SoundFrame(wire) /\ DecoderFails(wire))
          => /\ thrown' = "none"
             /\ EventsOfKind(events', "error") # <<>>
             /\ Len(EventsOfKind(events', "segment")) = Len(SegmentsOf(wire))
             /\ Len(EventsOfKind(events', "packet")) = 1]_vars

\* ------------------------------------------------------------------------
\* C5 Inflate failure other than "incorrect header check"
\* ------------------------------------------------------------------------

\* C5: a compressed frame whose inflate fails with another error than
\* "incorrect header check" is reported by an error event and dropped: no
\* message, segment or packet event is emitted for it.
C5_InflateFailureReported ==
    [][(Completes /\ aligned /\ WellFormedFrame(wire) /\ IsCorrupt(wire))
          => /\ EventsOfKind(events', "error") # <<>>
             /\ \A i \in 1..Len(events') :
                   events'[i].kind \notin {"message", "segment", "packet"}]_vars

\* ------------------------------------------------------------------------
\* C6 Encrypted frames are dropped silently
\* ------------------------------------------------------------------------

\* The callback on the second frame of the payload alone, on an empty buffer.
SecondAlone(port) ==
    OnPacket([StateOf(port) EXCEPT !.queue = <<>>, !.events = <<>>], port, SecondFrame(wire))

\* C6: a compressed frame whose body is not a zlib stream emits no event at
\* all and raises nothing, its cells leave the flow's buffer, and a frame
\* that follows it on the flow is processed as if it had come alone.
C6_EncryptedDroppedSilently ==
    [][\A port \in Ports :
          /\ (Completes /\ aligned /\ WellFormedFrame(wire) /\ IsEncrypted(wire))
                => /\ events' = <<>>
                   /\ thrown' = "none"
                   /\ ~hung'
                   /\ QueueOf(port)' = <<>>
          /\ (Completes /\ aligned /\ TwoFrames(wire) /\ IsEncrypted(FirstFrame(wire)))
                => OutcomeNow(port)' = Outcome(SecondAlone(port))]_vars

\* An encrypted frame and an IPC frame behind it were delivered: the only
\* events are those of the IPC frame, and the buffer is empty.
C6_Witness ==
    /\ wire = EncryptedFrame \o UnknownOpcodeFrame
    /\ wirePos = Len(wire)
    /\ aligned
    /\ KindsOf(events) = <<"message", "segment", "packet", "diagnostics">>
    /\ events[3].packet.childFrame.header = parseFrameHeader(UnknownOpcodeFrame)
    /\ \A port \in Ports : QueueOf(port) = <<>>

\* ------------------------------------------------------------------------
\* C7 The reassembler waits
\* ------------------------------------------------------------------------

\* The head of the buffer q is no complete magical frame: q is shorter than
\* a header, or its magic is not accepted, or q is shorter than the size the
\* header gives.
Blocked(q) ==
    \/ Len(q) < FRAME_HEADER_SIZE
    \/ q[1] \notin {MagicStandard, MagicKeepAlive}
    \/ Len(q) < q[2]

\* C7: a capture callback that finds, after its push, a buffer whose head
\* is blocked consumes no cell of it, emits no event and raises nothing.
C7_BlockedHeadWaits ==
    [][\A port \in Ports :
          (IsCapture /\ Blocked(QueueOf(port) \o Delivered))
              => /\ QueueOf(port)' = QueueOf(port) \o Delivered
                 /\ events' = events
                 /\ thrown' = "none"
                 /\ ~hung']_vars

\* A whole frame with a magic that is not accepted is buffered: nothing was
\* consumed, nothing emitted.
C7_Witness ==
    /\ wire = OtherMagicFrame
    /\ wirePos = Len(wire)
    /\ aligned
    /\ events = <<>>
    /\ thrown = "none"
    /\ \A port \in Ports : QueueOf(port) = OtherMagicFrame

\* ------------------------------------------------------------------------
\* C8 Two frames in one PSH payload
\* ------------------------------------------------------------------------

\* C8: two complete magical frames (neither one encrypted) delivered in a
\* single PSH payload on an empty flow are both drained by that callback:
\* two packet events, of the first frame then of the second, and the buffer
\* is empty afterwards.
C8_BackToBackFrames ==
    [][\A port \in Ports :
          (Completes /\ aligned /\ wirePos = 0 /\ TwoFrames(wire)
               /\ ~IsEncrypted(FirstFrame(wire)) /\ ~IsEncrypted(SecondFrame(wire)))
              => /\ Len(EventsOfKind(events', "packet")) = 2
                 /\ EventsOfKind(events', "packet")[1].packet.childFrame.header
                       = parseFrameHeader(FirstFrame(wire))
                 /\ EventsOfKind(events', "packet")[2].packet.childFrame.header
                       = parseFrameHeader(SecondFrame(wire))
                 /\ QueueOf(port)' = <<>>]_vars

\* ------------------------------------------------------------------------
\* C9 Region switch
\* ------------------------------------------------------------------------

\* The entries of region r in the loaded lists, server-zone then client-zone;
\* none when the lists are not loaded or do not have the region.
EntriesOf(opcodeLists, r) ==
    IF IsDefined(FindRegion(opcodeLists, r))
    THEN FindRegion(opcodeLists, r).v.lists.ServerZoneIpcType
             \o FindRegion(opcodeLists, r).v.lists.ClientZoneIpcType
    ELSE <<>>

\* The name region r gives an opcode: that of its last entry, "unknown" when
\* it has no entry.
NameInRegion(opcodeLists, r, opcode) ==
    LET entries == EntriesOf(opcodeLists, r)
        at      == {i \in 1..Len(entries) : entries[i].opcode = opcode}
    IN  IF at = {}
        THEN NameUnknown
        ELSE entries[CHOOSE i \in at : \A j \in at : j <= i].name

\* C9: once setRegion(r) has returned, whether or not the lists are loaded
\* and have r, the next processed frame has every opcode looked up in r's
\* map (the lookup does not fault), and what a decoder returns for it is
\* computed from r's constants record.
C9_RegionSwitch ==
    [][(Completes /\ aligned /\ SoundFrame(wire) /\ regionSet /\ onSegment = "none")
          => /\ thrown' # "opcodeLookup"
             /\ \A i \in 1..Len(events') :
                   events'[i].kind = "message"
                      => /\ events'[i].name
                               = LowerFirst(NameInRegion(_opcodeLists, _region,
                                                         events'[i].segment.ipcHeader.v.type))
                         /\ IsDefined(events'[i].segment.parsedIpcData)
                               => events'[i].segment.parsedIpcData.v
                                     = Decode(events'[i].name, events'[i].segment.ipcData.v,
                                              _constants.v[_region])]_vars

\* ------------------------------------------------------------------------
\* C10 One opcode map per frame
\* ------------------------------------------------------------------------

\* Every message event of evs is named as the index opcodes names it.
NamedBy(evs, opcodes) ==
    /\ IsDefined(opcodes)
    /\ \A i \in 1..Len(evs) :
          evs[i].kind = "message"
             => evs[i].name = LowerFirst(LookupName(opcodes.v, evs[i].segment.ipcHeader.v.type))

\* C10: all the segments of one frame are resolved against a single opcode
\* map, the one in force before the frame or the one in force after it, also
\* when a listener calls setRegion while the frame is processed.
C10_SingleMapPerFrame ==
    [][(Completes /\ aligned /\ SoundFrame(wire)
            /\ EventsOfKind(events', "message") # <<>>)
          => (NamedBy(events', _opcodes) \/ NamedBy(events', _opcodes'))]_vars

\* ------------------------------------------------------------------------
\* C11 Unknown opcode, missing decoder
\* ------------------------------------------------------------------------

\* The offset in the body of the i-th of the segments segs.
RECURSIVE OffsetOf(_, _)
OffsetOf(segs, i) == IF i <= 1 THEN 0 ELSE segs[i - 1].size + OffsetOf(segs, i - 1)

\* The IPC body of the i-th segment of a frame: what follows its two headers.
IpcBodyOf(frame, i) ==
    SubSeq(SegmentBody(frame),
           OffsetOf(SegmentsOf(frame), i) + SEG_HEADER_SIZE + IPC_HEADER_SIZE + 1,
           OffsetOf(SegmentsOf(frame), i) + SegmentsOf(frame)[i].size)

\* Processing has arrived at the i-th segment: the segments before it have
\* had their segment events.
Reached(evs, i) == Len(EventsOfKind(evs, "segment")) >= i - 1

\* The name the region's lists give the opcode of the i-th segment.
ResolvedName(frame, i) ==
    LowerFirst(NameInRegion(_opcodeLists, _region, SegmentsOf(frame)[i].opcode))

\* No decoder is to run for the i-th segment: the registry has no entry for
\* its name (as for "unknown"), or the constants table is not loaded.
NotDecodable(frame, i) ==
    ResolvedName(frame, i) \notin loadPacketProcessors \/ ~IsDefined(_constants)

\* C11: an IPC segment whose opcode the region's index does not name gets
\* the event message("unknown", segment); whenever the registry has no
\* decoder for the resolved name, or the constants are not loaded, no
\* decoder runs and message is still emitted with the name, parsedIpcData
\* undefined and the raw IPC body in ipcData.
C11_UnknownOpcode ==
    [][(Completes /\ aligned /\ SoundFrame(wire) /\ onSegment = "none")
          => \A i \in 1..Len(SegmentsOf(wire)) :
                (/\ SegmentsOf(wire)[i].segmentType = SegmentTypeIpc
                 /\ Reached(events', i)
                 /\ NotDecodable(wire, i))
                   => /\ HasMessageEvent(events', i)
                      /\ LET m == events'[SegmentEventAt(events', i) - 1]
                         IN  /\ m.name = ResolvedName(wire, i)
                             /\ m.segment.parsedIpcData = Undefined
                             /\ IsDefined(m.segment.ipcData)
                             /\ Take(m.segment.ipcData.v, Len(IpcBodyOf(wire, i)))
                                   = IpcBodyOf(wire, i)]_vars

\* ------------------------------------------------------------------------
\* C12 Segment count mismatch
\* ------------------------------------------------------------------------

\* The body of the frame holds fewer whole segments than segmentCount.
BodyExhausted(frame) == Len(SegmentsOf(frame)) < frame[3]

\* The body holds segmentCount segments and more cells after them.
Leftover(frame) ==
    /\ Len(SegmentsOf(frame)) = frame[3]
    /\ OffsetOf(SegmentsOf(frame), frame[3] + 1) < Len(SegmentBody(frame))

\* C12: a frame whose body is exhausted before segmentCount segments were
\* read, or has cells left after them, raises no error: it emits segment
\* events for exactly the segments that lie entirely in the body, then one
\* packet event, and all its cells leave the buffer.
C12_CountMismatchTolerated ==
    [][\A port \in Ports :
          (Completes /\ aligned /\ WellFormedFrame(wire)
               /\ ~IsEncrypted(wire) /\ ~IsCorrupt(wire)
               /\ (BodyExhausted(wire) \/ Leftover(wire)))
              => /\ thrown' = "none"
                 /\ [i \in 1..Len(SegmentsIn(events')) |-> SegmentsIn(events')[i].header]
                       = HeadersOf(SegmentsOf(wire))
                 /\ Len(EventsOfKind(events', "packet")) = 1
                 /\ QueueOf(port)' = <<>>]_vars

\* ------------------------------------------------------------------------
\* C13 The ready event
\* ------------------------------------------------------------------------

\* The interface while its tables load: the loads resolve or fail, listeners
\* subscribe to "ready" before or after it, the user sets the region.
NextReady ==
    \/ \E json \in OpcodeJsons : LoadOpcodes(json)
    \/ LoadConstants
    \/ LoadFails
    \/ \E listener \in ReadyListeners : OnReady(listener)
    \/ \E region \in Regions : SetRegion(region)

SpecReady == Init /\ [][NextReady]_vars

\* C13: ready is emitted at most once and only when the opcode lists and
\* the constants table are both loaded; it is never emitted when a load
\* failed; a listener that subscribes after ready was emitted is called at
\* once on subscription, and no listener is called twice.
C13_ReadyOnceAndLateJoin ==
    [][/\ readyEmits' <= 1
       /\ readyEmits' = 1 => (IsDefined(_opcodeLists') /\ IsDefined(_constants'))
       /\ loadPc' = "failed" => readyEmits' = 0
       /\ \A l \in ReadyListeners :
             /\ readyCalls'[l] <= 1
             /\ (readyEmits = 1 /\ l \notin readySubs /\ l \in readySubs')
                   => readyCalls'[l] = 1]_vars

\* ------------------------------------------------------------------------
\* C14 Flows are independent
\* ------------------------------------------------------------------------

\* What the capture delivers at once to one of the two flows: a whole
\* frame, the first cells of a frame, or the rest of that frame.
FlowPayloads ==
    {KeepAliveFrame,
     Take(UnknownOpcodeFrame, FRAME_HEADER_SIZE + 1),
     Slice(UnknownOpcodeFrame, FRAME_HEADER_SIZE + 1)}

\* Two flows on one interface: their PSH payloads, from either source
\* address, arrive in any interleaving while the tables load.
NextFlows ==
    \/ (handlers = 0 /\ Open)
    \/ \E json \in OpcodeJsons : LoadOpcodes(json)
    \/ LoadConstants
    \/ \E port \in FlowPorts, source \in Sources, payload \in FlowPayloads :
          CaptureFlow(port, source, payload)

SpecFlows == Init /\ [][NextFlows]_vars

\* C14: whatever the interleaving of the PSH payloads of two flows, each
\* flow's buffer holds, and the packets emitted for each flow are, in
\* order, what feeding that flow's payloads alone gives, whatever source
\* addresses they came from; a port has a buffer from its first payload on.
C14_FlowsIndependent ==
    \A p \in FlowPorts :
        /\ (p \in DOMAIN _bufTable) <=> (alone[p].n > 0)
        /\ (p \in DOMAIN _bufTable) => _bufTable[p] = alone[p].queue
        /\ flowFrames[p] = alone[p].frames
        /\ \A i \in 1..Len(flowFrames[p]) : flowFrames[p][i].destination = p

\* One flow was fed an IPC frame in two fragments, the second from another
\* source address than the first, and got its packet; the other flow got
\* the packet of a whole frame and holds the first fragment of a frame.
C14_Witness ==
    \E p \in FlowPorts, q \in FlowPorts :
        /\ p # q
        /\ alone[p].n = 2
        /\ Len(flowFrames[p]) = 1
        /\ flowFrames[p][1].childFrame.header = parseFrameHeader(UnknownOpcodeFrame)
        /\ flowFrames[p][1].source = OtherAddress
        /\ Len(flowFrames[q]) = 1
        /\ flowFrames[q][1].childFrame.header = parseFrameHeader(KeepAliveFrame)
        /\ flowFrames[q][1].source = PeerAddress
        /\ q \in DOMAIN _bufTable
        /\ _bufTable[q] = Take(UnknownOpcodeFrame, FRAME_HEADER_SIZE + 1)

\* ------------------------------------------------------------------------
\* C15 ipcData holds the segment's own bytes only
\* ------------------------------------------------------------------------

\* C15: the ipcData of an IPC segment with an IPC body of L cells is a
\* buffer of nextPowerOfTwo(L) cells whose first L cells are that body and
\* whose other cells are as allocated (zero): no cell of a following
\* segment is copied into it.
C15_IpcDataOwnBytes ==
    [][(Completes /\ aligned /\ SoundFrame(wire))
          => \A i \in 1..Len(SegmentsIn(events')) :
                LET ipcData == SegmentsIn(events')[i].ipcData
                    L       == Len(IpcBodyOf(wire, i))
                IN  IsDefined(ipcData)
                       => /\ Len(ipcData.v) = roundToNextPowerOf2(L)
                          /\ Take(ipcData.v, L) = IpcBodyOf(wire, i)
                          /\ \A k \in (L + 1)..Len(ipcData.v) : ipcData.v[k] = 0]_vars

\* ------------------------------------------------------------------------
\* C16 Merging the two opcode lists
\* ------------------------------------------------------------------------

\* C16: once updateOpcodesCache has run on loaded lists that have the
\* region, the index maps every opcode of the region's server-zone and
\* client-zone lists, and nothing else, to the name of its last entry in the
\* server-zone list followed by the client-zone list: a client-zone entry
\* overrides a server-zone entry of the same opcode.
C16_LaterEntryWins ==
    LET entries == EntriesOf(_opcodeLists, _region)
    IN  IsDefined(FindRegion(_opcodeLists, _region))
           => /\ IsDefined(_opcodes)
              /\ DOMAIN _opcodes.v = {entries[i].opcode : i \in 1..Len(entries)}
              /\ \A i \in 1..Len(entries) :
                    (\A j \in (i + 1)..Len(entries) : entries[j].opcode # entries[i].opcode)
                       => _opcodes.v[entries[i].opcode] = entries[i].name

\* The Global lists are loaded and in force: opcode 5, Logout in the
\* server-zone list and ChatHandler in the client-zone list, is ChatHandler.
C16_Witness ==
    /\ _region = "Global"
    /\ regionSet
    /\ IsDefined(FindRegion(_opcodeLists, _region))
    /\ IsDefined(_opcodes)
    /\ _opcodes.v[5] = NameChatHandler
    /\ \E i \in 1..Len(GlobalOpcodes.lists.ServerZoneIpcType) :
          /\ GlobalOpcodes.lists.ServerZoneIpcType[i].opcode = 5
          /\ GlobalOpcodes.lists.ServerZoneIpcType[i].name = NameLogout

\* ------------------------------------------------------------------------
\* C17 The drain loop terminates
\* ------------------------------------------------------------------------

\* C17: whatever a flow's buffer holds, the drain loop run after a push
\* terminates: no capture callback is left looping on a header it never
\* consumes, also when the size field of a magical header is 0.
C17_DrainTerminates == ~hung

\* ------------------------------------------------------------------------
\* C18 The opcode index is always a map
\* ------------------------------------------------------------------------

\* C18: after construction and after any load completion and any setRegion
\* call, _opcodes is a defined map (possibly empty), and no capture callback
\* has faulted on an opcode lookup.
C18_IndexAlwaysDefined == IsDefined(_opcodes) /\ thrown # "opcodeLookup"

\* ------------------------------------------------------------------------
\* C19 open() and close()
\* ------------------------------------------------------------------------

\* What the peer writes while the interface is opened and closed.
OpenClosePayloads == {KeepAliveFrame, UnknownOpcodeFrame}

\* One interface that is opened, closed and opened again in any order while
\* the peer writes to the flow.
NextOpenClose ==
    \/ (handlers < MaxOpens /\ Open)
    \/ Close
    \/ \E payload \in OpenClosePayloads : Send(payload)
    \/ \E port \in Ports, n \in 1..MaxBuffered : Capture(port, n)

SpecOpenClose == Init /\ [][NextOpenClose]_vars

\* C19: after any sequence of open() and close() calls, a captured PSH
\* payload is appended to its flow's buffer once and the frames it completes
\* are processed once: the capture of a payload has the effect of one run of
\* the internal handler on it.
C19_HandledOnce ==
    [][\A port \in Ports :
          IsCapture => OutcomeNow(port)' = Outcome(OnPacket(StateOf(port), port, Delivered))]_vars

\* ------------------------------------------------------------------------
\* C20 The head of a flow's buffer
\* ------------------------------------------------------------------------

\* b is a run of whole frames: each starts with a header with an accepted
\* magic and is as long as the header's size field says.
RECURSIVE WholeFrames(_)
WholeFrames(b) ==
    \/ b = <<>>
    \/ /\ Len(b) >= FRAME_HEADER_SIZE
       /\ b[1] \in {MagicStandard, MagicKeepAlive}
       /\ b[2] >= FRAME_HEADER_SIZE
       /\ b[2] <= Len(b)
       /\ WholeFrames(SubSeq(b, b[2] + 1, Len(b)))

\* The cells a step took out of the buffer q, which was pushed the cells
\* pushed and is now after: what stands before after in q \o pushed.
Consumed(q, pushed, after) == SubSeq(q \o pushed, 1, Len(q) + Len(pushed) - Len(after))

\* A header with a magic that is not accepted is at the head of q.
NonMagicalHead(q) ==
    Len(q) >= FRAME_HEADER_SIZE /\ q[1] \notin {MagicStandard, MagicKeepAlive}

=============================================================================
